---- MODULE Spec2Model ----
(***************************************************************************)
(* Model of flopy.modflow.mfrch: the MODFLOW recharge package ModflowRch,  *)
(* its constructor, write_file and the static factory load.                *)
(*                                                                         *)
(* Text is modelled at character level where mfrch.py itself formats or    *)
(* parses it (the '{0:10d}{1:10d}' records, strip().split(), int()).  A    *)
(* line of the file is a record [tag, chars, block]: tag "text" lines      *)
(* carry their characters (without the newline), tag "array" lines stand   *)
(* for one array block written by util_2d (block = the values as           *)
(* formatted), tag "parm" lines for one parameter definition of the        *)
(* parameter table read by mfparbc.loadarray.                              *)
(*                                                                         *)
(* A 2D array is a sequence of NRow rows, each a sequence of NCol values;  *)
(* Python's empty list [] is the empty sequence.                           *)
(***************************************************************************)
EXTENDS Integers, Sequences, FiniteSets, TLC

\* ------------------------------------------------------------------ bounds
NRow == 1
NCol == 2
MaxNper == 2
MaxComments == 2
MaxFailAt == 2

\* ------------------------------------------------------- program constants
FieldWidth == 10
DefaultIpakcb == 53
LayerFromIndexArray == 2

None == "None"

\* ------------------------------------------------------------ characters
Digits == <<"0", "1", "2", "3", "4", "5", "6", "7", "8", "9">>

IsDigit(c) == \E i \in 1..10 : Digits[i] = c

DigitVal(c) == (CHOOSE i \in 1..10 : Digits[i] = c) - 1

RECURSIVE NatToChars(_)
\* str(n) for n >= 0
NatToChars(n) ==
    IF n < 10 THEN <<Digits[n + 1]>>
    ELSE NatToChars(n \div 10) \o <<Digits[(n % 10) + 1]>>

\* str(n) / the digits '{:d}' produces for an int
IntToChars(n) == IF n < 0 THEN <<"-">> \o NatToChars(0 - n) ELSE NatToChars(n)

RECURSIVE Spaces(_)
Spaces(k) == IF k <= 0 THEN <<>> ELSE <<" ">> \o Spaces(k - 1)

\* '{0:10d}'.format(n): right-justified in FieldWidth columns, never truncated
Fmt10d(n) ==
    LET s == IntToChars(n)
    IN  Spaces(FieldWidth - Len(s)) \o s

RECURSIVE SplitFrom(_, _, _)
\* str.split() on whitespace: cur is the token being collected
SplitFrom(s, i, cur) ==
    IF i > Len(s)
    THEN IF cur = <<>> THEN <<>> ELSE <<cur>>
    ELSE IF s[i] = " "
         THEN IF cur = <<>> THEN SplitFrom(s, i + 1, <<>>)
              ELSE <<cur>> \o SplitFrom(s, i + 1, <<>>)
         ELSE SplitFrom(s, i + 1, Append(cur, s[i]))

\* line.strip().split()
Split(s) == SplitFrom(s, 1, <<>>)

\* int(tok) succeeds: optional sign followed by one or more digits
IsInt(tok) ==
    LET body == IF Len(tok) > 0 /\ tok[1] \in {"-", "+"} THEN Tail(tok) ELSE tok
    IN  /\ Len(body) > 0
        /\ \A i \in 1..Len(body) : IsDigit(body[i])

RECURSIVE DigitsToNat(_)
DigitsToNat(d) ==
    IF d = <<>> THEN 0
    ELSE 10 * DigitsToNat(SubSeq(d, 1, Len(d) - 1)) + DigitVal(d[Len(d)])

\* int(tok), defined when IsInt(tok)
ToInt(tok) ==
    IF tok[1] = "-" THEN 0 - DigitsToNat(Tail(tok))
    ELSE IF tok[1] = "+" THEN DigitsToNat(Tail(tok))
    ELSE DigitsToNat(tok)

\* str.lower() on the letters the model's files use
LowerChar(c) ==
    CASE c = "P" -> "p" [] c = "A" -> "a" [] c = "R" -> "r" [] c = "M" -> "m"
      [] c = "E" -> "e" [] c = "T" -> "t" [] c = "S" -> "s" [] c = "C" -> "c"
      [] c = "H" -> "h" [] c = "I" -> "i" [] c = "N" -> "n" [] c = "L" -> "l"
      [] OTHER -> c

Lower(s) == [i \in 1..Len(s) |-> LowerChar(s[i])]

\* sub in s
Contains(s, sub) ==
    \E i \in 1..(Len(s) - Len(sub) + 1) : SubSeq(s, i, i + Len(sub) - 1) = sub

ParameterWord == <<"p", "a", "r", "a", "m", "e", "t", "e", "r">>

\* ---------------------------------------------------------------- arrays
Rows == 1..NRow
Cols == 1..NCol

\* numpy.full((nrow, ncol), v)
Full(v) == [r \in Rows |-> [c \in Cols |-> v]]

\* the value has the grid shape (nrow, ncol)
IsGridArray(a) ==
    /\ DOMAIN a = Rows
    /\ \A r \in Rows : DOMAIN a[r] = Cols

\* Python's []
EmptyList == <<>>

MapArray(a, Op(_)) == [r \in DOMAIN a |-> [c \in DOMAIN a[r] |-> Op(a[r][c])]]

\* numpy.float32(v) for an integral v with 0 <= v < 2^25: exact up to 2^24,
\* above it the nearest even integer (ties to the even mantissa)
Float32(v) ==
    IF v <= 2^24 \/ v % 2 = 0 THEN v
    ELSE IF (v + 1) % 4 = 0 THEN v + 1 ELSE v - 1

\* digits after the decimal point of the array provider's E format
FracDigits == 6

\* The value denoted by the text the array provider writes for a float v
\* (d.ddddddE+xx: FracDigits + 1 significant digits, round half to even),
\* for an integral v with 0 <= v < 10^(FracDigits + 2)
FormatE(v) ==
    IF v < 10^(FracDigits + 1) THEN v
    ELSE LET q == v \div 10
             r == v % 10
         IN  IF r < 5 \/ (r = 5 /\ q % 2 = 0) THEN 10 * q ELSE 10 * (q + 1)

\* text of an integer array entry: exact
FormatI(v) == v

Ident(v) == v

Succ1(v) == v + 1

\* fmt is the number format of an array block's text: "E" or "I"
TextLine(c) == [tag |-> "text", chars |-> c, block |-> <<>>, fmt |-> ""]

ArrayLine(a, fmt) == [tag |-> "array", chars |-> <<>>, block |-> a, fmt |-> fmt]

ParmLine(name, a) == [tag |-> "parm", chars |-> name, block |-> a, fmt |-> "E"]

\* ------------------------------------------------- transient_2d provider
NoneVal == [none |-> TRUE]

\* a source handed to the constructor
Scalar(v) == [kind |-> "scalar", val |-> v]
Array(a) == [kind |-> "array", val |-> a]
Dict(d) == [kind |-> "dict", val |-> d]

\* irch + 1 raises TypeError for a dict (and succeeds for a number or ndarray)
CanAddOne(src) == src.kind # "dict"

\* irch + 1
AddOne(src) ==
    IF src.kind = "scalar" THEN Scalar(src.val + 1)
    ELSE Array(MapArray(src.val, Succ1))

\* every entry the provider is asked to hold has the grid shape
ShapesOk(src) ==
    CASE src.kind = "scalar" -> TRUE
      [] src.kind = "array" -> IsGridArray(src.val)
      [] OTHER -> \A k \in DOMAIN src.val : IsGridArray(src.val[k])

\* transient_2d(model, (nrow, ncol), dtype, src): the per-period arrays held;
\* a scalar or a single array is the entry of period 0
Transient2d(dtype, src) ==
    LET Cast(v) == IF dtype = "float32" THEN Float32(v) ELSE v
        data == CASE src.kind = "scalar" -> (0 :> Full(Cast(src.val)))
                  [] src.kind = "array" -> (0 :> MapArray(src.val, Cast))
                  [] OTHER -> [k \in DOMAIN src.val |-> MapArray(src.val[k], Cast)]
    IN  [dtype |-> dtype, data |-> data]

\* util_2d.get_file_entry(): the array block as written
FileEntry(t2d, kper) ==
    IF t2d.dtype = "float32"
    THEN ArrayLine(MapArray(t2d.data[kper], FormatE), "E")
    ELSE ArrayLine(MapArray(t2d.data[kper], FormatI), "I")

\* transient_2d.get_kper_entry(kper) -> (flag, file_entry); flag is the
\* provider's non-negative "new array" flag, or -1 for "reuse"
GetKperEntry(t2d, kper, flag) ==
    IF kper \in DOMAIN t2d.data
    THEN [flag |-> flag, entry |-> <<FileEntry(t2d, kper)>>]
    ELSE [flag |-> -1, entry |-> <<>>]

\* ------------------------------------------------------------ write_file
Heading ==
    <<"#", " ", "R", "C", "H", " ", "f", "o", "r", " ", "M", "O", "D", "F",
      "L", "O", "W", ",", " ", "g", "e", "n", "e", "r", "a", "t", "e", "d",
      " ", "b", "y", " ", "F", "l", "o", "p", "y", ".">>

StressPeriod ==
    <<"S", "t", "r", "e", "s", "s", " ", "p", "e", "r", "i", "o", "d", " ">>

\* WriteInirch with the else branch of line 113 writing 0
WriteInirchZero(p, kper, flag) ==
    IF p.nrchop = LayerFromIndexArray THEN GetKperEntry(p.irch, kper, flag).flag
    ELSE 0

\* the inirch written for kper (lines 110-113)
WriteInirch(p, kper, flag) ==
    IF p.nrchop = LayerFromIndexArray THEN GetKperEntry(p.irch, kper, flag).flag
    ELSE -1

\* WritePeriod with the index block written before the flux block
WritePeriodSwapped(p, kper, flag) ==
    LET r == GetKperEntry(p.rech, kper, flag)
        inrech == r.flag
        inirch == IF p.nrchop = LayerFromIndexArray
                  THEN GetKperEntry(p.irch, kper, flag).flag ELSE -1
        rec == TextLine(Fmt10d(inrech) \o Fmt10d(inirch) \o <<" ", "#", " ">>
                        \o StressPeriod \o IntToChars(kper + 1))
    IN  <<rec>>
        \o (IF p.nrchop = LayerFromIndexArray
            THEN IF inirch >= 0 THEN GetKperEntry(p.irch, kper, flag).entry
                 ELSE <<>>
            ELSE <<>>)
        \o (IF inrech >= 0 THEN r.entry ELSE <<>>)

\* WritePeriod with the test of line 116 written inrech > 0
WritePeriodStrict(p, kper, flag) ==
    LET r == GetKperEntry(p.rech, kper, flag)
        inrech == r.flag
        inirch == IF p.nrchop = LayerFromIndexArray
                  THEN GetKperEntry(p.irch, kper, flag).flag ELSE -1
        rec == TextLine(Fmt10d(inrech) \o Fmt10d(inirch) \o <<" ", "#", " ">>
                        \o StressPeriod \o IntToChars(kper + 1))
    IN  <<rec>>
        \o (IF inrech > 0 THEN r.entry ELSE <<>>)
        \o (IF p.nrchop = LayerFromIndexArray
            THEN IF inirch >= 0 THEN GetKperEntry(p.irch, kper, flag).entry
                 ELSE <<>>
            ELSE <<>>)

\* one iteration of the loop of write_file (lines 109-120)
WritePeriod(p, kper, flag) ==
    LET r == GetKperEntry(p.rech, kper, flag)
        inrech == r.flag
        inirch == WriteInirch(p, kper, flag)
        rec == TextLine(Fmt10d(inrech) \o Fmt10d(inirch) \o <<" ", "#", " ">>
                        \o StressPeriod \o IntToChars(kper + 1))
    IN  <<rec>>
        \o (IF inrech >= 0 THEN r.entry ELSE <<>>)
        \o (IF p.nrchop = LayerFromIndexArray
            THEN IF inirch >= 0 THEN GetKperEntry(p.irch, kper, flag).entry
                 ELSE <<>>
            ELSE <<>>)

RECURSIVE WritePeriods(_, _, _, _)
\* for kper in range(nper)
WritePeriods(p, kper, n, flag) ==
    IF kper >= n THEN <<>>
    ELSE WritePeriod(p, kper, flag) \o WritePeriods(p, kper + 1, n, flag)

\* the text write_file leaves in the file (lines 106-121)
WriteText(p, n, flag) ==
    <<TextLine(Heading), TextLine(Fmt10d(p.nrchop) \o Fmt10d(p.ipakcb))>>
    \o WritePeriods(p, 0, n, flag)

\* ------------------------------------------------- ModflowRch.__init__
\* irch + 1 raises TypeError (line 84)
InitTypeError(nrchop_, irchsrc) ==
    nrchop_ = LayerFromIndexArray /\ ~CanAddOne(irchsrc)

\* the provider is handed an entry that has not the grid shape
InitBadShape(nrchop_, rechsrc, irchsrc) ==
    \/ ~ShapesOk(rechsrc)
    \/ nrchop_ = LayerFromIndexArray /\ CanAddOne(irchsrc) /\ ~ShapesOk(irchsrc)

\* InitIrch with the test of line 82 written nrchop >= 2
InitIrchFrom2(nrchop_, irchsrc) ==
    IF nrchop_ >= LayerFromIndexArray
    THEN Transient2d("int", AddOne(irchsrc))
    ELSE NoneVal

\* self.irch (lines 82-86)
InitIrch(nrchop_, irchsrc) ==
    IF nrchop_ = LayerFromIndexArray
    THEN Transient2d("int", AddOne(irchsrc))
    ELSE NoneVal

\* the object the constructor builds (lines 78-87)
NewPackage(nrchop_, ipakcb_, rechsrc, irchsrc) ==
    [nrchop |-> nrchop_,
     ipakcb |-> ipakcb_,
     rech |-> Transient2d("float32", rechsrc),
     irch |-> InitIrch(nrchop_, irchsrc)]

\* ------------------------------------------------------------ input sets
NrchopVals == {1, 2, 3}

IpakcbVals == {0, 7, DefaultIpakcb}

\* a float32 array with more significant digits than the E format keeps
Wide == [r \in Rows |-> [c \in Cols |-> IF c = 1 THEN 2^24 ELSE 2]]

FluxArrays == {Full(1), Wide}

IndexArrays == {Full(0), Full(1)}

Periods(n) == 0..(n - 1)

\* per-period mappings that start at period 0
PeriodSets(n) == {K \in SUBSET Periods(n) : 0 \in K}

RechSources(n) ==
    {Scalar(1)} \cup {Array(a) : a \in FluxArrays}
    \cup UNION {{Dict(d) : d \in [K -> FluxArrays]} : K \in PeriodSets(n)}

IrchSources(n) ==
    {Scalar(0)} \cup {Array(a) : a \in IndexArrays}
    \cup {Dict([k \in Periods(n) |-> Full(0)])}

\* ----------------------------------------------------------- input files
Tok(n) == IntToChars(n)

BadTok == <<"x">>

CommentLine == TextLine(<<"#", " ", "c">>)

\* the line that declares n parameters
ParameterHeader(n) ==
    TextLine(<<"P", "A", "R", "A", "M", "E", "T", "E", "R", " ">> \o Tok(n))

\* the i-th parameter of a hand-written file: its name, a line that refers
\* to it, and the array it resolves to
ParmName(i) == <<"r", "c", "h">> \o Tok(i)

ParmRef(i) == TextLine(<<"R", "C", "H">> \o Tok(i))

ParmArray(i) == Full(3 + 2 * i)

\* the numbers of parameters hand-written files declare
ParmCounts == {1, 2}

\* the inrech flags of the files that declare parameters: reuse, no
\* reference line, one, and two
ParmInrech == {-1, 0, 1, 2}

\* tokens joined by single blanks
RECURSIVE Join(_)
Join(toks) ==
    IF toks = <<>> THEN <<>>
    ELSE IF Len(toks) = 1 THEN toks[1]
    ELSE toks[1] \o <<" ">> \o Join(Tail(toks))

\* the second token of the mode/budget record in a hand-written file
Tok2Vals == {<<>>, <<Tok(0)>>, <<Tok(7)>>, <<BadTok>>}

InrechToks == {Tok(-1), Tok(1), BadTok}

\* the flux block a hand-written file carries at period p
GivenFlux(p) == Full(p + 1)

GivenIndex(p) == Full(p + 11)

\* the lines of period p: the record, then what its flags announce, which is
\* inrech reference lines in a file that declares par > 0 parameters
GivenPeriod(mode, par, p, rec) ==
    LET hasRech == IsInt(rec.inrech) /\ ToInt(rec.inrech) >= 0
        hasIrch == /\ mode = LayerFromIndexArray
                   /\ rec.inirch # <<>>
                   /\ ToInt(rec.inirch[1]) >= 0
    IN  <<TextLine(Join(<<rec.inrech>> \o rec.inirch))>>
        \o (IF hasRech
            THEN IF par > 0
                 THEN [i \in 1..ToInt(rec.inrech) |-> ParmRef(i)]
                 ELSE <<ArrayLine(GivenFlux(p), "E")>>
            ELSE <<>>)
        \o (IF hasIrch THEN <<ArrayLine(GivenIndex(p), "I")>> ELSE <<>>)

RECURSIVE GivenPeriods(_, _, _, _)
GivenPeriods(mode, par, p, recs) ==
    IF p >= Len(recs) THEN <<>>
    ELSE GivenPeriod(mode, par, p, recs[p + 1])
         \o GivenPeriods(mode, par, p + 1, recs)

GivenFile(ncom, par, mode, tok2, recs) ==
    [i \in 1..ncom |-> CommentLine]
    \o (IF par > 0 THEN <<ParameterHeader(par)>> ELSE <<>>)
    \o <<TextLine(Join(<<Tok(mode)>> \o tok2))>>
    \o [i \in 1..par |-> ParmLine(ParmName(i), ParmArray(i))]
    \o GivenPeriods(mode, par, 0, recs)

\* the period records of hand-written files: every flag combination the
\* mode reads, a non-integer inrech, and a record without inirch; in a file
\* that declares parameters, every number of reference lines
GivenRecords(mode, par) ==
    IF par > 0
    THEN [inrech : {Tok(n) : n \in ParmInrech},
          inirch : {IF mode = LayerFromIndexArray THEN <<Tok(1)>>
                    ELSE <<Tok(-1)>>}]
    ELSE IF mode = LayerFromIndexArray
    THEN [inrech : {Tok(-1), Tok(1)}, inirch : {<<Tok(-1)>>, <<Tok(1)>>}]
         \cup {[inrech |-> BadTok, inirch |-> <<Tok(1)>>],
               [inrech |-> Tok(1), inirch |-> <<>>]}
    ELSE [inrech : InrechToks, inirch : {<<Tok(-1)>>}]
         \cup {[inrech |-> Tok(1), inirch |-> <<>>]}

\* a budget token followed by the trailing comment "# parameter"
NotedTok2 == <<Tok(0), <<"#">>, ParameterWord>>

\* comment lines, parameter header and budget token of hand-written files
GivenHeaders ==
    [ncom : {0}, par : {0}, tok2 : Tok2Vals]
    \cup {[ncom |-> 1, par |-> 0, tok2 |-> <<Tok(0)>>],
          [ncom |-> 0, par |-> 0, tok2 |-> NotedTok2]}
    \cup [ncom : {0}, par : ParmCounts, tok2 : {<<Tok(0)>>}]

\* the calls of load: by file name with nper omitted or given, and with an
\* open handle
LoadCalls(n) ==
    {[arg |-> <<>>, bypath |-> TRUE],
     [arg |-> <<n>>, bypath |-> TRUE],
     [arg |-> <<>>, bypath |-> FALSE]}

\* the flags the array provider may return with a new array
NewArrayFlags == {0, 1}

\* ------------------------------------------------------------------ state
VARIABLES
    nper,           \* the model's number of stress periods
    packages,       \* model.add_package calls, in order
    pop_key_list,   \* model.add_pop_key_list calls, in order
    pkg,            \* the package built by direct construction
    cstate,         \* "none", "built" or "raised": the direct construction
    supplied,       \* the nrchop and irch arguments of the direct construction
    file,           \* the lines of the package file
    fstate,         \* "none", "written" (by write_file), "partial" (by a
                    \* write_file that raised) or "given"
    wh,             \* f_rch of write_file: "none", "open" or "closed"
    fh,             \* f of load: "none", "caller" (a handle was passed),
                    \* "open" or "closed" (load opened it at line 163)
    lpc,            \* position of load
    nper_arg,       \* load's nper argument: <<>> for None, <<n>> for n
    fpos,           \* index of the next line f.readline() returns
    line,           \* load's local line
    npar,           \* load's locals, under the names of the source
    pak_parms,
    nrchop,
    ipakcb,
    shape_bound,    \* nrow and ncol are bound (line 194 ran)
    lnper,          \* load's local nper after line 194
    rech,
    irch,
    current_rech,
    current_irch,
    iper,           \* the loop variable of line 202: the iteration that runs
                    \* next, or the last one once the loop has ended
    hist,           \* per period: the flags read and fpos before and after
    loaded,         \* the package load returned
    err             \* the exception that ended load or the constructor:
                    \* its kind and the position of load it was raised at

modelVars == <<nper>>
regVars == <<packages, pop_key_list>>
ctorVars == <<pkg, cstate, supplied>>
fileVars == <<file, fstate, wh>>
headVars == <<nper_arg, fh, line, npar, nrchop, ipakcb>>
loopVars == <<pak_parms, shape_bound, lnper, rech, irch, current_rech,
              current_irch, iper, hist>>
vars == <<modelVars, regVars, ctorVars, fileVars, lpc, fpos, headVars,
          loopVars, loaded, err>>

NoErr == [kind |-> None, at |-> None]

EofLine == [tag |-> "eof", chars |-> <<>>, block |-> <<>>, fmt |-> ""]

Init ==
    /\ nper \in 1..MaxNper
    /\ packages = <<>>
    /\ pop_key_list = <<>>
    /\ pkg = NoneVal
    /\ cstate = "none"
    /\ supplied = [nrchop |-> 0, irch |-> NoneVal]
    /\ file = <<>>
    /\ fstate = "none"
    /\ wh = "none"
    /\ fh = "none"
    /\ lpc = "idle"
    /\ nper_arg = <<>>
    /\ fpos = 1
    /\ line = EofLine
    /\ npar = 0
    /\ pak_parms = <<>>
    /\ nrchop = 0
    /\ ipakcb = 0
    /\ shape_bound = FALSE
    /\ lnper = 0
    /\ rech = <<>>
    /\ irch = <<>>
    /\ current_rech = EmptyList
    /\ current_irch = EmptyList
    /\ iper = 0
    /\ hist = <<>>
    /\ loaded = NoneVal
    /\ err = NoErr

\* --------------------------------------------------- direct construction
\* ModflowRch(model, nrchop, ipakcb, rech, irch) called by the user
Construct(nrchop_, ipakcb_, rechsrc, irchsrc) ==
    /\ cstate = "none"
    /\ fstate = "none"
    /\ supplied' = [nrchop |-> nrchop_, irch |-> irchsrc]
    /\ IF InitTypeError(nrchop_, irchsrc)
       THEN /\ cstate' = "raised"
            /\ err' = [kind |-> "TypeError", at |-> "init"]
            /\ UNCHANGED <<pkg, packages>>
       ELSE /\ pkg' = NewPackage(nrchop_, ipakcb_, rechsrc, irchsrc)
            /\ packages' = Append(packages, pkg')
            /\ cstate' = "built"
            /\ err' = NoErr
    /\ UNCHANGED <<modelVars, pop_key_list, fileVars, lpc, fpos, headVars,
                   loopVars, loaded>>

\* pkg.write_file(); flag is the value the array provider's get_kper_entry
\* returns with a new array
WriteFile(flag) ==
    /\ cstate = "built"
    /\ fstate = "none"
    /\ file' = WriteText(pkg, nper, flag)
    /\ fstate' = "written"
    /\ wh' = "closed"
    /\ UNCHANGED <<modelVars, regVars, ctorVars, lpc, fpos, headVars,
                   loopVars, loaded, err>>

\* pkg.write_file() raising after k lines (the provider or f_rch.write
\* raises): line 121 is not reached
WriteFails(flag, k) ==
    /\ cstate = "built"
    /\ fstate = "none"
    /\ k < Len(WriteText(pkg, nper, flag))
    /\ file' = SubSeq(WriteText(pkg, nper, flag), 1, k)
    /\ fstate' = "partial"
    /\ wh' = "open"
    /\ UNCHANGED <<modelVars, regVars, ctorVars, lpc, fpos, headVars,
                   loopVars, loaded, err>>

\* a package file that was not written by write_file
ProvideFile(ncom, par, mode, tok2, recs) ==
    /\ cstate = "none"
    /\ fstate = "none"
    /\ file' = GivenFile(ncom, par, mode, tok2, recs)
    /\ fstate' = "given"
    /\ wh' = wh
    /\ UNCHANGED <<modelVars, regVars, ctorVars, lpc, fpos, headVars,
                   loopVars, loaded, err>>

\* a package file without a record: n comment lines, or nothing
ProvideComments(n) ==
    /\ cstate = "none"
    /\ fstate = "none"
    /\ file' = [i \in 1..n |-> CommentLine]
    /\ fstate' = "given"
    /\ wh' = wh
    /\ UNCHANGED <<modelVars, regVars, ctorVars, lpc, fpos, headVars,
                   loopVars, loaded, err>>

\* ------------------------------------------------------------------ load
\* f.readline() at position pos: '' at the end of the file
ReadLine(pos) == IF pos > Len(file) THEN EofLine ELSE file[pos]

NextPos(pos) == IF pos > Len(file) THEN pos ELSE pos + 1

\* the first tokens of an array control record or parameter definition
ControlTokens == <<<<"I", "N", "T", "E", "R", "N", "A", "L">>, <<"1", ".", "0">>>>

\* LineTokens reading the '' of an exhausted file as a record of reuse flags
LineTokensEofReuse(l) ==
    IF l.tag = "text" THEN Split(l.chars)
    ELSE IF l.tag = "eof" THEN <<IntToChars(-1), IntToChars(-1)>>
    ELSE <<<<"I", "N", "T", "E", "R", "N", "A", "L">>, <<"1", ".", "0">>>>

\* line.strip().split()
LineTokens(l) ==
    IF l.tag = "text" THEN Split(l.chars)
    ELSE IF l.tag = "eof" THEN <<>>
    ELSE ControlTokens

\* line[0] != '#' (line 167), for a line that is not ''
NotComment(l) == l.tag # "text" \/ l.chars = <<>> \/ l.chars[1] # "#"

\* "parameter" in line.lower() (line 170)
IsParameterHeader(l) == l.tag = "text" /\ Contains(Lower(l.chars), ParameterWord)

\* an exception leaves load in the middle of a step: the handle is at pos,
\* after the lines read before the raise, and the statements of the step
\* that ran have bound line to l, current_rech to cr and rech to r
Raise(kind, pos, l, cr, r) ==
    /\ lpc' = "failed"
    /\ err' = [kind |-> kind, at |-> lpc]
    /\ fpos' = pos
    /\ line' = l
    /\ current_rech' = cr
    /\ rech' = r
    /\ UNCHANGED <<modelVars, regVars, ctorVars, fileVars, nper_arg, fh,
                   npar, nrchop, ipakcb, pak_parms, shape_bound, lnper, irch,
                   current_irch, iper, hist, loaded>>

\* an exception raised before the step has bound any of load's locals
Fail(kind, pos) == Raise(kind, pos, line, current_rech, rech)

\* ModflowRch.load(f, model, nper=arg)
\* bypath: f is a file name, and lines 161-163 open it
LoadCall(arg, bypath) ==
    /\ lpc = "idle"
    /\ fstate \in {"written", "given"}
    /\ lpc' = "skip"
    /\ nper_arg' = arg
    /\ fh' = IF bypath THEN "open" ELSE "caller"
    /\ fpos' = 1
    /\ UNCHANGED <<modelVars, regVars, ctorVars, fileVars, line, npar, nrchop,
                   ipakcb, loopVars, loaded, err>>

\* SkipOutcome taking the '' of an exhausted file for one more comment
SkipOutcomeEofAgain(l) ==
    IF l.tag = "eof" THEN "again"
    ELSE IF NotComment(l) THEN "break"
    ELSE "again"

\* lines 167-168 on the line read: line[0] raises IndexError on '', the
\* loop breaks on a line that does not begin with '#', and goes on otherwise
SkipOutcome(l) ==
    IF l.tag = "eof" THEN "raise"
    ELSE IF NotComment(l) THEN "break"
    ELSE "again"

\* one iteration of the loop of lines 165-168
LoadSkip ==
    /\ lpc = "skip"
    /\ \E l \in {ReadLine(fpos)} :
           IF SkipOutcome(l) = "raise"
           THEN Raise("IndexError", fpos, l, current_rech, rech)
           ELSE /\ line' = l
                /\ fpos' = NextPos(fpos)
                /\ lpc' = IF SkipOutcome(l) = "break" THEN "header" ELSE "skip"
                /\ UNCHANGED <<modelVars, regVars, ctorVars, fileVars,
                               nper_arg, fh, npar, nrchop, ipakcb, loopVars,
                               loaded, err>>

\* lines 169-176
LoadHeader ==
    /\ lpc = "header"
    /\ IF IsParameterHeader(line)
       THEN LET raw == Split(line.chars)
            IN  IF Len(raw) < 2 THEN Fail("IndexError", fpos)
                ELSE IF ~IsInt(raw[2]) THEN Fail("ValueError", fpos)
                ELSE /\ npar' = ToInt(raw[2])
                     /\ line' = ReadLine(fpos)
                     /\ fpos' = NextPos(fpos)
                     /\ lpc' = "dataset2"
                     /\ UNCHANGED <<modelVars, regVars, ctorVars, fileVars,
                                    nper_arg, fh, nrchop, ipakcb, loopVars,
                                    loaded, err>>
       ELSE /\ npar' = 0
            /\ lpc' = "dataset2"
            /\ UNCHANGED <<modelVars, regVars, ctorVars, fileVars, fpos,
                           nper_arg, fh, line, nrchop, ipakcb, loopVars, loaded,
                           err>>

\* int(t[1]) raises inside the try of lines 181-186
Tok2Raises(t) == Len(t) < 2 \/ ~IsInt(t[2])

\* PopKeyCalls registering the default unit instead of the unit read
PopKeyCallsDefault(t) ==
    IF Len(t) < 2 \/ ~IsInt(t[2]) THEN <<>>
    ELSE IF ToInt(t[2]) # 0 THEN <<DefaultIpakcb>> ELSE <<>>

\* the calls of model.add_pop_key_list made by lines 181-186
PopKeyCalls(t) ==
    IF Tok2Raises(t) THEN <<>>
    ELSE IF ToInt(t[2]) # 0 THEN <<ToInt(t[2])>> ELSE <<>>

\* LoadIpakcb keeping the unit number read instead of the default unit
LoadIpakcbLiteral(t) ==
    IF Len(t) < 2 \/ ~IsInt(t[2]) THEN 0 ELSE ToInt(t[2])

\* ipakcb after lines 180-186
LoadIpakcb(t) ==
    IF Tok2Raises(t) THEN 0
    ELSE IF ToInt(t[2]) # 0 THEN DefaultIpakcb ELSE 0

\* lines 178-186
LoadDataset2 ==
    /\ lpc = "dataset2"
    /\ \E t \in {LineTokens(line)} :
           IF Len(t) < 1 THEN Fail("IndexError", fpos)
           ELSE IF ~IsInt(t[1]) THEN Fail("ValueError", fpos)
           ELSE /\ nrchop' = ToInt(t[1])
                /\ ipakcb' = LoadIpakcb(t)
                /\ pop_key_list' = pop_key_list \o PopKeyCalls(t)
                /\ lpc' = "params"
                /\ UNCHANGED <<modelVars, packages, ctorVars, fileVars, fpos,
                               nper_arg, fh, line, npar, loopVars, loaded, err>>

RECURSIVE ReadParms(_, _)
\* mfparbc.loadarray(f, npar, verbose): npar parameter definitions from pos
ReadParms(pos, n) ==
    IF n <= 0 THEN [ok |-> TRUE, pos |-> pos, tab |-> <<>>]
    ELSE LET l == ReadLine(pos)
             rest == ReadParms(NextPos(pos), n - 1)
         IN  IF l.tag # "parm"
             THEN [ok |-> FALSE, pos |-> NextPos(pos), tab |-> <<>>]
             ELSE IF ~rest.ok THEN rest
             ELSE [ok |-> TRUE, pos |-> rest.pos,
                   tab |-> <<[name |-> l.chars, val |-> l.block]>> \o rest.tab]

\* lines 189-201
LoadParams ==
    /\ lpc = "params"
    /\ \E pp \in {IF npar > 0 THEN ReadParms(fpos, npar)
                  ELSE [ok |-> TRUE, pos |-> fpos, tab |-> <<>>]},
          n \in {IF nper_arg = <<>> THEN nper ELSE nper_arg[1]} :
           IF ~pp.ok THEN Fail("ParameterFailure", pp.pos)
           ELSE /\ pak_parms' = pp.tab
                /\ fpos' = pp.pos
                /\ shape_bound' = (nper_arg = <<>>)
                /\ lnper' = n
                /\ rech' = <<>>
                /\ irch' = <<>>
                /\ current_rech' = EmptyList
                /\ current_irch' = EmptyList
                /\ iper' = 0
                /\ hist' = <<>>
                /\ lpc' = IF n > 0 THEN "period" ELSE "construct"
                /\ UNCHANGED <<modelVars, regVars, ctorVars, fileVars,
                               headVars, loaded, err>>

\* d[k] = v on a dict
Put(d, k, v) == [x \in (DOMAIN d) \cup {k} |-> IF x = k THEN v ELSE d[x]]

Failed(kind, pos) == [err |-> kind, pos |-> pos, val |-> EmptyList]

\* util_2d.load(f, model, (nrow, ncol), dtype, name, ext_unit_dict) at pos
LoadArray(pos, dtype) ==
    LET l == ReadLine(pos)
    IN  IF l.tag = "array" /\ IsGridArray(l.block)
        THEN [err |-> None, pos |-> pos + 1,
              val |-> IF dtype = "float32" THEN MapArray(l.block, Float32)
                      ELSE MapArray(l.block, Ident)]
        ELSE Failed("ArrayLoadFailure", NextPos(pos))

RECURSIVE ReadRefs(_, _)
\* the loop of lines 215-228: the names of n parameter-reference lines
\* last is the line of the last readline() of line 216
ReadRefs(pos, n) ==
    IF n <= 0 THEN [err |-> None, pos |-> pos, names |-> {}, last |-> EofLine]
    ELSE LET l == ReadLine(pos)
             t == LineTokens(l)
             rest == ReadRefs(NextPos(pos), n - 1)
         IN  IF Len(t) < 1
             THEN [err |-> "IndexError", pos |-> NextPos(pos), names |-> {},
                   last |-> l]
             ELSE IF rest.err # None THEN rest
             ELSE [err |-> None, pos |-> rest.pos,
                   names |-> {Lower(t[1])} \cup rest.names,
                   last |-> IF n = 1 THEN l ELSE rest.last]

ParmNames == {pak_parms[i].name : i \in DOMAIN pak_parms}

ParmVal(name) ==
    pak_parms[CHOOSE i \in DOMAIN pak_parms : pak_parms[i].name = name].val

RECURSIVE BcFill(_)
\* mfparbc.parameter_bcfill(model, (nrow, ncol), parm_dict, pak_parms)
BcFill(names) ==
    IF names = {} THEN Full(0)
    ELSE LET n == CHOOSE x \in names : TRUE
             a == ParmVal(n)
             b == BcFill(names \ {n})
         IN  [r \in Rows |-> [c \in Cols |-> a[r][c] + b[r][c]]]

\* the exception of lines 203-207 for the tokens of the record, or None
RecordError(t) ==
    IF Len(t) < 1 THEN "IndexError"
    ELSE IF ~IsInt(t[1]) THEN "ValueError"
    ELSE IF nrchop # LayerFromIndexArray THEN None
    ELSE IF Len(t) < 2 THEN "IndexError"
    ELSE IF ~IsInt(t[2]) THEN "ValueError"
    ELSE None

\* FluxStep with the loop of line 215 written range(npar): a period reads
\* as many reference lines as parameters are declared
FluxStepNparRefs(pos, inrech) ==
    IF inrech >= 0
    THEN IF npar = 0
         THEN IF ~shape_bound THEN Failed("NameError", pos)
              ELSE LoadArray(pos, "float32")
         ELSE LET refs == ReadRefs(pos, npar)
              IN  IF refs.err # None THEN Failed(refs.err, refs.pos)
                  ELSE IF ~shape_bound THEN Failed("NameError", refs.pos)
                  ELSE IF ~(refs.names \subseteq ParmNames)
                  THEN Failed("ParameterFailure", refs.pos)
                  ELSE [err |-> None, pos |-> refs.pos,
                        val |-> BcFill(refs.names)]
    ELSE [err |-> None, pos |-> pos, val |-> current_rech]

\* FluxStep with the test of line 208 written inrech > 0
FluxStepStrict(pos, inrech) ==
    IF inrech > 0
    THEN IF npar = 0
         THEN IF ~shape_bound THEN Failed("NameError", pos)
              ELSE LoadArray(pos, "float32")
         ELSE LET refs == ReadRefs(pos, inrech)
              IN  IF refs.err # None THEN Failed(refs.err, refs.pos)
                  ELSE IF ~shape_bound THEN Failed("NameError", refs.pos)
                  ELSE IF ~(refs.names \subseteq ParmNames)
                  THEN Failed("ParameterFailure", refs.pos)
                  ELSE [err |-> None, pos |-> refs.pos,
                        val |-> BcFill(refs.names)]
    ELSE [err |-> None, pos |-> pos, val |-> current_rech]

\* lines 208-231: the value of current_rech after them
FluxStep(pos, inrech) ==
    IF inrech >= 0
    THEN IF npar = 0
         THEN IF ~shape_bound THEN Failed("NameError", pos)
              ELSE LoadArray(pos, "float32")
         ELSE LET refs == ReadRefs(pos, inrech)
              IN  IF refs.err # None THEN Failed(refs.err, refs.pos)
                  ELSE IF ~shape_bound THEN Failed("NameError", refs.pos)
                  ELSE IF ~(refs.names \subseteq ParmNames)
                  THEN Failed("ParameterFailure", refs.pos)
                  ELSE [err |-> None, pos |-> refs.pos,
                        val |-> BcFill(refs.names)]
    ELSE [err |-> None, pos |-> pos, val |-> current_rech]

\* IndexStep without line 240's reuse: a period with inirch < 0 forgets
\* the index array read before it
IndexStepForgets(pos, inirch) ==
    IF inirch >= 0
    THEN IF ~shape_bound THEN Failed("NameError", pos)
         ELSE LoadArray(pos, "int")
    ELSE [err |-> None, pos |-> pos, val |-> EmptyList]

\* lines 234-240: the value of current_irch after them
IndexStep(pos, inirch) ==
    IF inirch >= 0
    THEN IF ~shape_bound THEN Failed("NameError", pos)
         ELSE LoadArray(pos, "int")
    ELSE [err |-> None, pos |-> pos, val |-> current_irch]

\* load's local line after lines 208-231 ran, or raised, in the iteration
\* that read its record at pos: the last line the loop of line 215 read, or
\* the record
LastLine(pos, inrech) ==
    IF inrech > 0 /\ npar # 0 THEN ReadRefs(NextPos(pos), inrech).last
    ELSE ReadLine(pos)

\* one iteration of the loop of lines 202-241
LoadPeriod ==
    /\ lpc = "period"
    /\ \E t \in {LineTokens(ReadLine(fpos))}, p1 \in {NextPos(fpos)} :
         IF RecordError(t) # None
         THEN Raise(RecordError(t), p1, ReadLine(fpos), current_rech, rech)
         ELSE \E inrech \in {ToInt(t[1])} :
              \E fl \in {FluxStep(p1, inrech)} :
                IF fl.err # None
                THEN Raise(fl.err, fl.pos, LastLine(fpos, inrech),
                           current_rech, rech)
                ELSE IF nrchop = LayerFromIndexArray
                THEN \E inirch \in {ToInt(t[2])} :
                     \E ix \in {IndexStep(fl.pos, inirch)} :
                       IF ix.err # None
                       THEN Raise(ix.err, ix.pos, LastLine(fpos, inrech),
                                  fl.val, Put(rech, iper, fl.val))
                       ELSE /\ current_rech' = fl.val
                            /\ rech' = Put(rech, iper, fl.val)
                            /\ current_irch' = ix.val
                            /\ irch' = Put(irch, iper, ix.val)
                            /\ fpos' = ix.pos
                            /\ hist' = Put(hist, iper,
                                   [inrech |-> inrech, inirch |-> inirch,
                                    before |-> fpos, after |-> ix.pos])
                            /\ iper' = IF iper + 1 < lnper THEN iper + 1 ELSE iper
                            /\ line' = LastLine(fpos, inrech)
                            /\ lpc' = IF iper + 1 < lnper THEN "period"
                                      ELSE "construct"
                            /\ UNCHANGED <<modelVars, regVars, ctorVars,
                                           fileVars, nper_arg, fh, npar,
                                           nrchop, ipakcb, pak_parms,
                                           shape_bound, lnper, loaded, err>>
                ELSE /\ current_rech' = fl.val
                     /\ rech' = Put(rech, iper, fl.val)
                     /\ fpos' = fl.pos
                     /\ hist' = Put(hist, iper,
                            [inrech |-> inrech, inirch |-> -1,
                             before |-> fpos, after |-> fl.pos])
                     /\ iper' = IF iper + 1 < lnper THEN iper + 1 ELSE iper
                     /\ line' = LastLine(fpos, inrech)
                     /\ lpc' = IF iper + 1 < lnper THEN "period"
                               ELSE "construct"
                     /\ UNCHANGED <<modelVars, regVars, ctorVars, fileVars,
                                    nper_arg, fh, npar, nrchop, ipakcb,
                                    pak_parms, shape_bound, lnper, irch,
                                    current_irch, loaded, err>>

\* the irch argument of line 243: the dict irch, or None
LoadIrchArg == IF nrchop = LayerFromIndexArray THEN Dict(irch) ELSE NoneVal

\* the handle load opened, once load has returned: nothing closes it but
\* the finalizer of the file object, which CPython runs when the frame of
\* load is released and other interpreters run later
AfterReturn(h) == IF h = "open" THEN {"open", "closed"} ELSE {h}

\* lines 242-244: rch = ModflowRch(model, nrchop, ipakcb, rech, irch).
\* Line 80 hands rech to its provider before line 84 evaluates irch+1; a
\* provider that validates shapes raises on an entry that is not a grid
LoadConstruct ==
    /\ lpc = "construct"
    /\ \/ /\ InitBadShape(nrchop, Dict(rech), LoadIrchArg)
          /\ Fail("ProviderError", fpos)
       \/ /\ InitTypeError(nrchop, LoadIrchArg)
          /\ Fail("TypeError", fpos)
       \/ /\ ~InitTypeError(nrchop, LoadIrchArg)
          /\ loaded' = NewPackage(nrchop, ipakcb, Dict(rech), LoadIrchArg)
          /\ packages' = Append(packages, loaded')
          /\ lpc' = "done"
          /\ fh' \in AfterReturn(fh)
          /\ UNCHANGED <<modelVars, pop_key_list, ctorVars, fileVars, fpos,
                         nper_arg, line, npar, nrchop, ipakcb, loopVars, err>>

\* ------------------------------------------------------------------ next
Next ==
    \/ \E n \in NrchopVals, u \in IpakcbVals :
         \E rs \in RechSources(nper), is \in IrchSources(nper) :
            Construct(n, u, rs, is)
    \/ \E flag \in NewArrayFlags : WriteFile(flag)
    \/ \E h \in GivenHeaders, mode \in NrchopVals, k \in 0..nper :
         \E recs \in [1..k -> GivenRecords(mode, h.par)] :
            ProvideFile(h.ncom, h.par, mode, h.tok2, recs)
    \/ \E n \in 0..MaxComments : ProvideComments(n)
    \/ \E flag \in NewArrayFlags, k \in 0..MaxFailAt : WriteFails(flag, k)
    \/ \E c \in LoadCalls(nper) : LoadCall(c.arg, c.bypath)
    \/ LoadSkip
    \/ LoadHeader
    \/ LoadDataset2
    \/ LoadParams
    \/ LoadPeriod
    \/ LoadConstruct

Spec == Init /\ [][Next]_vars

\* the statements of load after the call
LoadStep ==
    \/ LoadSkip
    \/ LoadHeader
    \/ LoadDataset2
    \/ LoadParams
    \/ LoadPeriod
    \/ LoadConstruct

\* load is one sequential call: once entered, the interpreter executes its
\* next statement
LiveSpec == Spec /\ WF_vars(LoadStep)

\* ================================================================ claims
\* every period has its own entry in the provider
Explicit(t2d) == DOMAIN t2d.data = Periods(nper)

\* a float32 after its trip through the text of an array block
AsWritten(v) == Float32(FormatE(v))

\* load(f, model) has ended on the text write_file produced
RoundTripEnded ==
    /\ fstate = "written"
    /\ nper_arg = <<>>
    /\ lpc \in {"done", "failed"}

\* C1 (as amended): for a package with nrchop 1 or 3 and an explicit flux
\* array for every period, load(f, model) of the text write_file produced
\* returns a package with the same nrchop whose flux of every period is the
\* original's rounded to the seven significant digits of the array text.
C1_FluxRoundTripRounded ==
    (RoundTripEnded /\ pkg.nrchop # LayerFromIndexArray /\ Explicit(pkg.rech))
    => /\ lpc = "done"
       /\ loaded.nrchop = pkg.nrchop
       /\ \A p \in Periods(nper) :
            loaded.rech.data[p] = MapArray(pkg.rech.data[p], AsWritten)

\* C1 (as claimed): the loaded flux of every period equals the original's.
C1_FluxRoundTripExact ==
    (RoundTripEnded /\ pkg.nrchop # LayerFromIndexArray /\ Explicit(pkg.rech))
    => /\ lpc = "done"
       /\ loaded.nrchop = pkg.nrchop
       /\ \A p \in Periods(nper) : loaded.rech.data[p] = pkg.rech.data[p]

\* C1 witness: a round trip of two periods with different flux arrays
C1_Witness ==
    /\ RoundTripEnded
    /\ lpc = "done"
    /\ pkg.nrchop # LayerFromIndexArray
    /\ Explicit(pkg.rech)
    /\ nper >= 2
    /\ pkg.rech.data[0] # pkg.rech.data[1]
    /\ loaded.rech.data[1] = pkg.rech.data[1]

\* C2 (as amended): a package load returns from the text write_file
\* produced for a package with ipakcb >= 0 has ipakcb 0 when the
\* original's is 0 and the default unit 53 otherwise.
C2_IpakcbRoundTripDefault ==
    (fstate = "written" /\ lpc = "done" /\ pkg.ipakcb >= 0)
    => loaded.ipakcb = IF pkg.ipakcb = 0 THEN 0 ELSE DefaultIpakcb

\* C2 (as claimed): the loaded ipakcb is exactly the original's.
C2_IpakcbRoundTripExact ==
    (fstate = "written" /\ lpc = "done" /\ pkg.ipakcb >= 0)
    => loaded.ipakcb = pkg.ipakcb

\* C2 witness: a package written with unit 7 comes back with unit 53
C2_Witness ==
    /\ fstate = "written"
    /\ lpc = "done"
    /\ pkg.ipakcb = 7
    /\ loaded.ipakcb = DefaultIpakcb

\* C3 (as claimed): for a package with nrchop 2 and an explicit index array
\* for every period, load of the text write_file produced succeeds and the
\* loaded index array of every period holds the values the original holds.
C3_IndexRoundTrip ==
    (RoundTripEnded /\ pkg.nrchop = LayerFromIndexArray /\ Explicit(pkg.irch))
    => /\ lpc = "done"
       /\ \A p \in Periods(nper) : loaded.irch.data[p] = pkg.irch.data[p]

\* C4 (as claimed): once load has read the records of all nper periods,
\* the flux recorded for every period is an array of the grid shape,
\* whatever the inrech flags were.
C4_FluxDefined ==
    lpc \in {"construct", "done"}
    => \A p \in Periods(lnper) : IsGridArray(rech[p])

\* the index blocks load reads in a period with flags h
IndexBlocks(h) ==
    IF nrchop = LayerFromIndexArray /\ h.inirch >= 0 THEN 1 ELSE 0

\* q is the latest period up to p whose record has inrech >= 0
LatestRead(q, p) ==
    /\ hist[q].inrech >= 0
    /\ \A j \in (q + 1)..p : hist[j].inrech < 0

\* C5: in load, a period p >= 1 whose record has inrech < 0 records the flux
\* of p - 1 and consumes no flux block; the flux of every period is the
\* array read at the latest period q <= p with inrech >= 0, and the package
\* returned holds these arrays.
C5_ReuseRule ==
    lpc \in {"period", "construct", "done"}
    => \A p \in DOMAIN hist :
         /\ (p >= 1 /\ hist[p].inrech < 0)
            => /\ rech[p] = rech[p - 1]
               /\ hist[p].after = hist[p].before + 1 + IndexBlocks(hist[p])
         /\ \A q \in 0..p :
              LatestRead(q, p)
              => /\ rech[p] = rech[q]
                 /\ npar = 0
                    => rech[q] = MapArray(file[hist[q].before + 1].block, Float32)
         /\ lpc = "done" => loaded.rech.data[p] = rech[p]

\* C5 witness: a load of two periods or more returned, with an array read
\* at period 0 and reused at the last period
C5_Witness ==
    /\ lpc = "done"
    /\ lnper >= 2
    /\ hist[0].inrech >= 0
    /\ hist[lnper - 1].inrech < 0
    /\ IsGridArray(loaded.rech.data[lnper - 1])
    /\ loaded.rech.data[lnper - 1] = loaded.rech.data[0]

\* the package objects that exist
PackageObjects ==
    {packages[i] : i \in DOMAIN packages}
    \cup (IF cstate = "built" THEN {pkg} ELSE {})
    \cup (IF lpc = "done" THEN {loaded} ELSE {})

\* C6: on every package object, built directly or returned by load, the
\* index array exists if and only if nrchop = 2.
C6_IndexIffMode ==
    \A o \in PackageObjects : (o.irch # NoneVal) <=> (o.nrchop = LayerFromIndexArray)

\* C6 witness: a package of mode 1 or 3 was built with an index source and
\* holds no index array, and neither does the package load returned from
\* its file; both are registered with the model
C6_Witness ==
    /\ cstate = "built"
    /\ pkg.nrchop # LayerFromIndexArray
    /\ pkg.irch = NoneVal
    /\ lpc = "done"
    /\ loaded.irch = NoneVal
    /\ Len(packages) = 2

\* the lines of the written file after heading and mode/budget record
Body == 3..Len(file)

\* C7: when nrchop is not 2, write_file writes exactly nper period records,
\* each with -1 in its inirch field, and every array block it writes is the
\* flux block announced by the inrech >= 0 of the record right before it.
C7_NoIndexOutput ==
    (fstate = "written" /\ pkg.nrchop # LayerFromIndexArray)
    => /\ Cardinality({i \in Body : file[i].tag = "text"}) = nper
       /\ \A i \in Body :
            /\ file[i].tag = "text" => Split(file[i].chars)[2] = IntToChars(-1)
            /\ file[i].tag = "array"
               => /\ file[i].fmt = "E"
                  /\ file[i - 1].tag = "text"
                  /\ ToInt(Split(file[i - 1].chars)[1]) >= 0

\* C7 witness: a package of mode 1 or 3 written for two periods or more
C7_Witness ==
    /\ fstate = "written"
    /\ pkg.nrchop # LayerFromIndexArray
    /\ nper >= 2
    /\ \E i \in Body : file[i].tag = "array"

RECURSIVE Ordered(_, _)
\* from line pos on, the file holds the records and blocks of periods
\* k..nper and nothing else
Ordered(pos, k) ==
    IF k > nper THEN pos = Len(file) + 1
    ELSE /\ pos <= Len(file)
         /\ file[pos].tag = "text"
         /\ LET t == Split(file[pos].chars)
                a == IF ToInt(t[1]) >= 0 THEN 1 ELSE 0
                b == IF pkg.nrchop = LayerFromIndexArray /\ ToInt(t[2]) >= 0
                     THEN 1 ELSE 0
            IN  /\ Len(t) = 6
                /\ t[3] = <<"#">>
                /\ t[4] \o <<" ">> \o t[5] \o <<" ">> = StressPeriod
                /\ t[6] = IntToChars(k)
                /\ a = 1 => /\ pos + 1 <= Len(file)
                            /\ file[pos + 1] = FileEntry(pkg.rech, k - 1)
                /\ b = 1 => /\ pos + a + 1 <= Len(file)
                            /\ file[pos + a + 1] = FileEntry(pkg.irch, k - 1)
                /\ Ordered(pos + 1 + a + b, k + 1)

\* C8: write_file writes the heading, the mode/budget record, then for the
\* periods 1..nper in order: the record labelled with the period number,
\* the period's flux block iff inrech >= 0, the period's index block iff
\* nrchop = 2 and inirch >= 0; and nothing else.
C8_OutputOrder ==
    fstate = "written"
    => /\ file[1] = TextLine(Heading)
       /\ Split(file[2].chars) = <<IntToChars(pkg.nrchop), IntToChars(pkg.ipakcb)>>
       /\ Ordered(3, 1)

\* C8 witness: a written file of mode 2 whose first period has both blocks
\* and whose last period has none
C8_Witness ==
    /\ fstate = "written"
    /\ pkg.nrchop = LayerFromIndexArray
    /\ nper >= 2
    /\ file[4].fmt = "E"
    /\ file[5].fmt = "I"
    /\ file[Len(file)].tag = "text"

\* the second token of the mode/budget record is a non-zero integer
NonZeroUnit(t) == Len(t) >= 2 /\ IsInt(t[2]) /\ ToInt(t[2]) # 0

\* C9: right after the mode/budget record is parsed, add_pop_key_list has
\* been called once with the parsed value and ipakcb is 53 if the second
\* token is a non-zero integer, and it has not been called and ipakcb is 0
\* otherwise; the second token never makes load fail; the package returned
\* has that ipakcb, 0 or 53.
C9_BudgetToken ==
    /\ lpc = "params"
       => LET t == LineTokens(line)
          IN  IF NonZeroUnit(t)
              THEN pop_key_list = <<ToInt(t[2])>> /\ ipakcb = DefaultIpakcb
              ELSE pop_key_list = <<>> /\ ipakcb = 0
    /\ (lpc = "failed" /\ err.at = "dataset2")
       => LET t == LineTokens(line) IN Len(t) = 0 \/ ~IsInt(t[1])
    /\ lpc = "done"
       => /\ loaded.ipakcb = ipakcb
          /\ loaded.ipakcb \in {0, DefaultIpakcb}
          /\ (loaded.ipakcb = 0) <=> (pop_key_list = <<>>)
          /\ Len(pop_key_list) <= 1

\* C9 witness: a load returned from a file whose budget token is 7
C9_Witness ==
    /\ lpc = "done"
    /\ fstate = "given"
    /\ pop_key_list = <<7>>
    /\ loaded.ipakcb = DefaultIpakcb

\* the line is a period record load can parse in the mode read
WellFormedRecord(l) ==
    /\ l.tag = "text"
    /\ LET t == Split(l.chars)
       IN  /\ Len(t) >= 1
           /\ IsInt(t[1])
           /\ nrchop = LayerFromIndexArray => Len(t) >= 2

\* the add_package calls made before load was called
RegisteredBefore == IF cstate = "built" THEN 1 ELSE 0

\* C10: every period record load got past is a line of the file that is
\* well-formed, load returns only after nper such records, and unless load
\* has returned no package is returned and add_package was not called.
C10_MalformedRecordFails ==
    /\ \A p \in DOMAIN hist :
         /\ hist[p].before <= Len(file)
         /\ WellFormedRecord(file[hist[p].before])
    /\ lpc = "done" => DOMAIN hist = Periods(lnper)
    /\ lpc # "done" => loaded = NoneVal /\ Len(packages) = RegisteredBefore

\* C10 witness: load failed on a period record after an earlier period was
\* parsed
C10_Witness ==
    /\ lpc = "failed"
    /\ err.at = "period"
    /\ err.kind \in {"ValueError", "IndexError"}
    /\ iper >= 1
    /\ loaded = NoneVal

\* C11 (as claimed): load called with nper given explicitly and equal to
\* the model's, on the text write_file produced for a package of mode 1 or
\* 3 (text that load reads back when nper is omitted), reads nper period
\* records, loads every array with the model's grid shape and returns the
\* package.
C11_ExplicitNper ==
    (/\ fstate = "written"
     /\ pkg.nrchop # LayerFromIndexArray
     /\ nper_arg = <<nper>>
     /\ lpc \in {"done", "failed"})
    => /\ lpc = "done"
       /\ DOMAIN hist = Periods(nper)
       /\ \A p \in Periods(nper) : IsGridArray(loaded.rech.data[p])

\* the first line of the file that is not a comment
HeaderPos ==
    CHOOSE k \in 1..Len(file) :
        /\ NotComment(file[k])
        /\ \A j \in 1..(k - 1) : ~NotComment(file[j])

\* the first token of the line contains "parameter", in any case
FirstTokenHasParameter(l) ==
    /\ l.tag = "text"
    /\ Len(Split(l.chars)) >= 1
    /\ Contains(Lower(Split(l.chars)[1]), ParameterWord)

\* C12 (as claimed): when load has classified the header, the first
\* non-comment line was taken as the parameter declaration (npar its second
\* token, the mode/budget record the line after it) if its first token
\* contains "parameter"; otherwise npar is 0 and that line itself is the
\* mode/budget record.
C12_HeaderClassification ==
    lpc = "dataset2"
    => LET h == file[HeaderPos]
       IN  IF FirstTokenHasParameter(h)
           THEN npar = ToInt(Split(h.chars)[2]) /\ line = ReadLine(HeaderPos + 1)
           ELSE npar = 0 /\ line = h

\* the names on the n parameter-reference lines that follow the record at pos
RefNames(pos, n) == {Lower(Split(file[i].chars)[1]) : i \in (pos + 1)..(pos + n)}

\* C13: in a load with npar = 0, a period with inrech >= 0 consumes its
\* record and one array block, which is its flux, and no parameter table
\* exists; in a load with npar > 0, a period with inrech >= 0 consumes its
\* record and inrech parameter-reference lines, none of them an array
\* block, and its flux is what the parameter table resolves their names to.
C13_DirectOrParameters ==
    lpc \in {"period", "construct", "done"}
    => /\ npar = 0 => pak_parms = <<>>
       /\ \A p \in DOMAIN hist :
            LET h == hist[p]
            IN  h.inrech >= 0
                => IF npar = 0
                   THEN /\ h.after = h.before + 2 + IndexBlocks(h)
                        /\ file[h.before + 1].tag = "array"
                        /\ rech[p] = MapArray(file[h.before + 1].block, Float32)
                   ELSE /\ h.after = h.before + 1 + h.inrech + IndexBlocks(h)
                        /\ \A i \in (h.before + 1)..(h.before + h.inrech) :
                             file[i].tag = "text"
                        /\ rech[p] = BcFill(RefNames(h.before, h.inrech))

\* C13 witness: a load of a file that declares two parameters returned;
\* period 0 read two reference lines and holds the sum of both parameters,
\* period 1 read one reference line and holds the first parameter
C13_Witness ==
    /\ lpc = "done"
    /\ npar = 2
    /\ lnper = 2
    /\ hist[0].inrech = 2
    /\ hist[0].after = hist[0].before + 3
    /\ loaded.rech.data[0] = BcFill({ParmName(1), ParmName(2)})
    /\ hist[1].inrech = 1
    /\ hist[1].after = hist[1].before + 2
    /\ loaded.rech.data[1] = ParmArray(1)
    /\ loaded.rech.data[0] # loaded.rech.data[1]

\* an index source with 1 added to every value it holds
Shifted(src) ==
    CASE src.kind = "scalar" -> Scalar(src.val + 1)
      [] src.kind = "array" -> Array(MapArray(src.val, Succ1))
      [] OTHER -> Dict([k \in DOMAIN src.val |-> MapArray(src.val[k], Succ1)])

\* C14 (as claimed): a construction in mode LayerFromIndexArray succeeds for
\* a scalar, a full array and a per-period mapping alike, and the index
\* provider of the package holds every supplied value plus 1.
C14_IndexShift ==
    (cstate # "none" /\ supplied.nrchop = LayerFromIndexArray)
    => /\ cstate = "built"
       /\ pkg.irch = Transient2d("int", Shifted(supplied.irch))

\* the lines load reads for the flux of a period with flags h
FluxLines(h) ==
    IF h.inrech < 0 THEN 0 ELSE IF npar = 0 THEN 1 ELSE h.inrech

\* q is the latest period up to p whose record has inirch >= 0
LatestIndexRead(q, p) ==
    /\ hist[q].inirch >= 0
    /\ \A j \in (q + 1)..p : hist[j].inirch < 0

\* C15: in mode LayerFromIndexArray, whatever the inrech flags are, the index
\* recorded for period p is the array read at the latest period q <= p with
\* inirch >= 0, a period p >= 1 with inirch < 0 records the index of p - 1,
\* and the index block of a period is the line after the lines of its flux:
\* with both flags >= 0 the flux block is read first, then the index block,
\* the order write_file emits them in (format E, then format I).
C15_IndexReuseIndependent ==
    (lpc \in {"period", "construct"} /\ nrchop = LayerFromIndexArray)
    => \A p \in DOMAIN hist :
         LET h == hist[p]
         IN  /\ DOMAIN irch = DOMAIN hist
             /\ (p >= 1 /\ h.inirch < 0) => irch[p] = irch[p - 1]
             /\ \A q \in 0..p :
                  LatestIndexRead(q, p)
                  => LET at == hist[q].before + 1 + FluxLines(hist[q])
                     IN  /\ irch[p] = irch[q]
                         /\ file[at].tag = "array"
                         /\ irch[q] = MapArray(file[at].block, Ident)
                         /\ hist[q].after = at + 1
             /\ (h.inrech >= 0 /\ h.inirch >= 0 /\ npar = 0)
                => /\ rech[p] = MapArray(file[h.before + 1].block, Float32)
                   /\ irch[p] = MapArray(file[h.before + 2].block, Ident)
                   /\ fstate = "written"
                      => /\ file[h.before + 1].fmt = "E"
                         /\ file[h.before + 2].fmt = "I"

\* C15 witness: the loop of a mode-2 load ended after two periods; period 0
\* read a flux block and an index block that differ, period 1 read a new
\* flux block and reused the index
C15_Witness ==
    /\ lpc = "construct"
    /\ nrchop = LayerFromIndexArray
    /\ npar = 0
    /\ lnper = 2
    /\ hist[0].inrech >= 0 /\ hist[0].inirch >= 0
    /\ hist[1].inrech >= 0 /\ hist[1].inirch < 0
    /\ IsGridArray(irch[0])
    /\ irch[0] # rech[0]
    /\ irch[1] = irch[0]
    /\ rech[1] # rech[0]

\* load has returned or raised
LoadEnded == lpc \in {"done", "failed"}

\* C16: every call of load ends, by a return or by an exception; the period
\* loop never runs more than its nper iterations, and the comment loop never
\* reads past the first line that does not begin with '#'.
C16_LoadTerminates ==
    /\ (lpc # "idle") ~> LoadEnded
    /\ [](iper <= lnper /\ DOMAIN hist \subseteq Periods(lnper))
    /\ [](lpc \in {"header", "dataset2"}
          => /\ HeaderPos <= fpos
             /\ fpos <= HeaderPos + 2)

\* C16 witness: load raised in the comment loop on a file of comment lines
\* only, all of them read
C16_Witness ==
    /\ lpc = "failed"
    /\ err = [kind |-> "IndexError", at |-> "skip"]
    /\ Len(file) >= 1
    /\ \A i \in 1..Len(file) : ~NotComment(file[i])
    /\ fpos = Len(file) + 1

\* C17 (as claimed): when load has ended, by a return or by an exception,
\* the handle it opened for a file name is closed; when write_file has ended,
\* by a return or by an exception, the handle it opened is closed.
C17_HandlesClosed ==
    /\ (LoadEnded /\ fh # "caller") => fh = "closed"
    /\ fstate \in {"written", "partial"} => wh = "closed"

\* C18 (as claimed): when load raises after the mode/budget record, in the
\* parameter table, in a period record, in an array block or at the final
\* construction, the pop-key list and the package registry of the model are
\* what they were before the call.
C18_FailedLoadFrame ==
    (lpc = "failed" /\ err.at \in {"params", "period", "construct"})
    => /\ pop_key_list = <<>>
       /\ Len(packages) = RegisteredBefore

====
